---- MODULE Spec2Model ----
(***************************************************************************)
(* Model of train_tpu.py: the per-core training worker _mp_fn and its      *)
(* launcher.  Every worker runs the same code: setup, then for each epoch  *)
(* a training loop over the batches, a validation loop, three mesh_reduce  *)
(* barriers and (on the master) the report and the per-epoch checkpoint.   *)
(* Each loop iteration is one action; the optimizer / XLA calls it makes   *)
(* are recorded, in program order, in the event record ev.                 *)
(***************************************************************************)
EXTENDS Integers, Sequences, FiniteSets, TLC

\* ------------------------------------------------------------------ bounds
Epochs == 2
NTrain == 2
NVal == 2
LogInterval == 2
BatchSize == 2
MaxMelLen == 8

\* ------------------------------------------------------- program constants
SaveFreq == 2
SaveInterval == 1000
HopSize == 300

\* the processes xmp.spawn starts: the master ordinal and one other replica
Workers == {0, 1}
Master == 0
NumWorkers == Cardinality(Workers)

\* xm.is_master_ordinal()
is_master(w) == w = Master

GenModulesWithDisc ==
    <<"predictor", "style_encoder", "decoder", "text_encoder", "text_aligner", "msd">>

\* the modules the loop steps: lines 342-346 and 294-295, in program order
GenModules == <<"predictor", "style_encoder", "decoder", "text_encoder", "text_aligner">>
DiscModules == <<"msd", "mpd">>

\* the keys of model the worker uses (lines 209-213, 226-281, 294-295, 342-346)
Modules ==
    {"text_aligner", "text_encoder", "style_encoder", "predictor", "decoder",
     "msd", "mpd", "pitch_extractor"}

TrainModulesWithDecoder ==
    {"text_aligner", "text_encoder", "predictor", "msd", "mpd", "decoder"}

\* lines 209-213: the modules put in train mode at the head of an epoch
TrainModules == {"text_aligner", "text_encoder", "predictor", "msd", "mpd"}

\* ------------------------------------------------------------- arithmetic
Abs(x) == IF x < 0 THEN -x ELSE x

RECURSIVE Gcd(_, _)
Gcd(a, b) == IF b = 0 THEN a ELSE Gcd(b, a % b)

\* an exact fraction n/d (d > 0) in lowest terms: the value of a Python float
Frac(n, d) ==
    LET g == Gcd(Abs(n), d) IN <<n \div g, d \div g>>

FracAdd(x, k) == Frac(x[1] + k * x[2], x[2])

FracDiv(x, k) == Frac(x[1], x[2] * k)

Zero == <<0, 1>>

FracPlus(x, y) == Frac(x[1] * y[2] + y[1] * x[2], x[2] * y[2])

\* sum(x) of the values f[w], w in ws
RECURSIVE SumOver(_, _)
SumOver(f, ws) ==
    IF ws = {} THEN Zero
    ELSE LET w == CHOOSE x \in ws : TRUE IN FracPlus(f[w], SumOver(f, ws \ {w}))

\* max(iters_test, 1)
Max(a, b) == IF a >= b THEN a ELSE b

Min(a, b) == IF a <= b THEN a ELSE b

\* Python int(x / d + c): true division, then truncation toward zero
PyIntDiv(x, d, c) ==
    LET n == x + c * d IN
    IF n >= 0 THEN n \div d ELSE -((-n) \div d)

\* ------------------------------------------------------------------ state
VARIABLES
    cfg,        \* the configuration file and the checkpoint it names
    pc,         \* per worker: where in _mp_fn it is
    epoch,      \* per worker: loop variable epoch
    i,          \* per worker: index of the next batch of the current loop
    iters,      \* per worker: global step counter
    done_batches, \* per worker: batches that completed both update phases
    loss_test,  \* per worker: validation sums (fractions)
    loss_align,
    loss_f,
    iters_test, \* per worker: validation batches evaluated
    reduced,    \* per worker: tags mesh_reduce'd in the current epoch
    red,        \* the sums and counts that entered the loss_test reduction, until reported
    ev,         \* the last loop iteration or step performed: its calls in order (ops),
                \* its side effects (fx) and, for the master's report, what it reported
    smp,        \* the last window sampled by the segment sampler
    net,        \* per worker: the version of the weights of each module of model
    optimizer,  \* per worker: the updates each module's optimizer has applied
    training,   \* per worker: the modules that are in train mode
    running_loss, \* per worker: the mel-loss accumulator of the interval log
    running_n   \* per worker: the batches added to running_loss since it was zeroed

vars == <<cfg, pc, epoch, i, iters, done_batches, loss_test, loss_align, loss_f,
          iters_test, reduced, red, ev, smp, net, optimizer, training,
          running_loss, running_n>>

\* the variables of the model, the optimizer and the interval log
model_vars == <<net, optimizer, training, running_loss, running_n>>

NoRed == [sums |-> [w \in Workers |-> Zero], counts |-> [w \in Workers |-> 0]]

\* the operations recorded in ev.ops
Op(name, arg) == [op |-> name, arg |-> arg]

\* weights, or optimizer state, that nothing has updated yet
Fresh == [m \in Modules |-> 0]

\* lines 371-380 and 483-491: the state dictionary handed to xm.save, and its path
Ckpt(path, n, o, it, val, e) ==
    [path |-> path, net |-> n, optimizer |-> o, iters |-> it, val_loss |-> val, epoch |-> e]

NoSave == Ckpt("none", Fresh, Fresh, 0, Zero, 0)

\* no interval log was emitted
NoLog == [emitted |-> FALSE, mel |-> Zero, sum |-> 0, n |-> 0]

NoEvent ==
    [w |-> -1, kind |-> "none", fail |-> "none", g |-> "n/a", outcome |-> "none",
     ops |-> <<>>, fx |-> {}, iters0 |-> 0, i |-> 0, val |-> Zero, red |-> NoRed,
     save |-> NoSave, log |-> NoLog, acc0 |-> <<Zero, Zero, Zero, 0>>,
     s0 |-> [net |-> Fresh, optimizer |-> Fresh]]

NoSample ==
    [kind |-> "none", lens |-> <<>>, max_len |-> 0, mel_len |-> 0, starts |-> <<>>,
     win |-> <<>>, raised |-> FALSE]

\* the configurations a run can be started with
\* what load_checkpoint returns as (start_epoch, iters): a cold start, or a resume
\* into the last epoch, one step before the interim checkpoint is due
Checkpoints == {<<0, 0>>, <<Epochs - 1, SaveInterval - 1>>}

\* config load_only_params (default True, line 186) and training_strats
\* freeze_modules (default '', line 183) of a run that starts from checkpoint c: a
\* cold start with the defaults; a resume that restores the optimizer, with and
\* without frozen modules
Strats(c) ==
    IF c[2] = 0 THEN {<<TRUE, {}>>}
    ELSE {<<FALSE, {}>>, <<FALSE, {"decoder", "msd"}>>}

Runs == UNION {{<<c, t>> : t \in Strats(c)} : c \in Checkpoints}

Configs ==
    {[symbol |-> s, pretrained |-> p, start_epoch |-> r[1][1], iters |-> r[1][2],
      load_only_params |-> r[2][1], freeze |-> r[2][2]] :
        s \in BOOLEAN, p \in BOOLEAN, r \in Runs}

\* the checkpoint file config pretrained_model names: trained for c.iters steps
CkptFile(c) ==
    Ckpt("pretrained_model", [m \in Modules |-> c.iters], [m \in Modules |-> c.iters],
         c.iters, Zero, c.start_epoch)

\* load_checkpoint(model, optimizer, path, load_only_params, ignore_modules,
\* freeze_modules): the weights of every module not ignored, the optimizer state
\* unless load_only_params, the epoch and the iteration count of the checkpoint
LoadCheckpoint(state, load_only_params, ignore_modules, freeze_modules) ==
    [net |-> [m \in Modules |-> IF m \in ignore_modules THEN 0 ELSE state.net[m]],
     optimizer |-> IF load_only_params THEN Fresh
                   ELSE [m \in Modules |->
                            IF m \in ignore_modules THEN 0 ELSE state.optimizer[m]],
     epoch |-> state.epoch,
     iters |-> state.iters,
     frozen |-> freeze_modules]

FreezeArgNone(c) == {}

\* line 188: freeze_modules = training_strats['freeze_modules']
FreezeArg(c) == c.freeze

\* lines 184-196: what the worker holds after load_checkpoint
LoadPretrained(c) == LoadCheckpoint(CkptFile(c), c.load_only_params, {}, FreezeArg(c))

InitProgram ==
    /\ cfg \in Configs
    /\ pc = [w \in Workers |-> "start"]
    /\ epoch = [w \in Workers |-> 0]
    /\ i = [w \in Workers |-> 0]
    /\ iters = [w \in Workers |-> 0]
    /\ done_batches = [w \in Workers |-> 0]
    /\ loss_test = [w \in Workers |-> Zero]
    /\ loss_align = [w \in Workers |-> Zero]
    /\ loss_f = [w \in Workers |-> Zero]
    /\ iters_test = [w \in Workers |-> 0]
    /\ reduced = [w \in Workers |-> <<>>]
    /\ red = NoRed
    /\ ev = NoEvent
    /\ net = [w \in Workers |-> Fresh]
    /\ optimizer = [w \in Workers |-> Fresh]
    /\ training = [w \in Workers |-> {}]
    /\ running_loss = [w \in Workers |-> 0]
    /\ running_n = [w \in Workers |-> 0]

Init == InitProgram /\ smp = NoSample

\* the side effects `whats` (statements of the source), all of one kind, by worker w
Fx(w, kind, whats) == {[w |-> w, kind |-> kind, what |-> x] : x \in whats}

\* ------------------------------------------------------------------ setup
\* lines 56-68: log directory, config copy, SummaryWriter and file handler
SetupMasterFx(w) ==
    IF is_master(w)
    THEN Fx(w, "fs", {"makedirs", "copy_config"}) \cup Fx(w, "writer", {"SummaryWriter", "train.log"})
    ELSE {}

\* lines 81-95: the vocabulary; a missing key prints and raises SystemExit(1)
SymbolFx(w, c) ==
    IF c.symbol
    THEN (IF is_master(w) THEN Fx(w, "print", {"Found symbols"}) ELSE {})
    ELSE Fx(w, "print", {"ERROR: Cannot find"})

\* lines 100-201: what is built after the vocabulary, in program order
BuildOps(c) ==
    <<Op("build", "train_dataloader"), Op("build", "val_dataloader"),
      Op("build", "model"), Op("build", "optimizer")>>
    \o (IF c.pretrained THEN <<Op("load_checkpoint", "pretrained_model")>> ELSE <<>>)

BuildFx(w, c) ==
    IF is_master(w)
    THEN Fx(w, "print", {"Initializing train_dataloader", "Initializing val_dataloader"}
                        \cup (IF c.pretrained THEN {"decoder optimizer"} ELSE {}))
    ELSE {}

SetupOpsVocabLate(c) ==
    BuildOps(c) \o (IF c.symbol THEN <<Op("build", "vocab")>> ELSE <<>>)

SetupOps(c) ==
    IF c.symbol THEN <<Op("build", "vocab")>> \o BuildOps(c) ELSE <<>>

SetupOutcomeFromScratch(c) == IF ~c.symbol THEN "exit" ELSE "ok"

SetupOutcome(c) ==
    IF ~c.symbol THEN "exit"
    ELSE IF ~c.pretrained THEN "fatal"
    ELSE "ok"

SetupFx(w, c) ==
    SetupMasterFx(w) \cup SymbolFx(w, c) \cup (IF c.symbol THEN BuildFx(w, c) ELSE {})

\* line 204 (and 493-494): the head of the epoch loop, entered with epoch e
LoopPc(e) == IF e < Epochs THEN "train" ELSE "done"

LoopFx(w, e) ==
    IF e >= Epochs /\ is_master(w) THEN Fx(w, "print", {"Training finished."}) ELSE {}

\* lines 184, 196, 204: the epoch and the step counter the loop starts from
Resume(r) == [epoch |-> r.epoch, iters |-> r.iters]

\* lines 208-213, at the head of epoch e: every module in eval mode, then five of
\* them in train mode; nothing when the loop is over
EpochModes(e, modes) == IF e < Epochs THEN TrainModules ELSE modes

\* where worker w is: the statement it executes next
AtSetup(w) == pc[w] = "start"

AtTrainBatch(w) == pc[w] = "train" /\ i[w] < NTrain

AtEndTrain(w) == pc[w] = "train" /\ i[w] = NTrain

AtValBatch(w) == pc[w] = "eval" /\ i[w] < NVal

AtEndVal(w) == pc[w] = "eval" /\ i[w] = NVal

AtReport(w) == pc[w] = "report"

\* lines 44-201, up to the head of the epoch loop
Setup(w) ==
    /\ AtSetup(w)
    /\ LET out == SetupOutcome(cfg)
           r == LoadPretrained(cfg)
           e == Resume(r).epoch
           fx == SetupFx(w, cfg) \cup (IF out = "ok" THEN LoopFx(w, e) ELSE {})
       IN /\ pc' = [pc EXCEPT ![w] = IF out = "ok" THEN LoopPc(e) ELSE out]
          /\ epoch' = [epoch EXCEPT ![w] = IF out = "ok" THEN e ELSE 0]
          /\ iters' = [iters EXCEPT ![w] = IF out = "ok" THEN Resume(r).iters ELSE 0]
          /\ net' = [net EXCEPT ![w] = IF out = "ok" THEN r.net ELSE @]
          /\ optimizer' = [optimizer EXCEPT ![w] = IF out = "ok" THEN r.optimizer ELSE @]
          /\ training' = [training EXCEPT ![w] = IF out = "ok" THEN EpochModes(e, @) ELSE @]
          /\ ev' = [NoEvent EXCEPT !.w = w, !.kind = "setup", !.outcome = out,
                                   !.ops = SetupOps(cfg), !.fx = fx]
    /\ UNCHANGED <<cfg, i, done_batches, loss_test, loss_align, loss_f, iters_test,
                   reduced, red, smp, running_loss, running_n>>

\* --------------------------------------------------------------- training
\* where a batch can raise: in the aligner forward (226-229), or after it, of which
\* maximum_path (235-236) is the first statement that can
FailPoints == {"none", "aligner", "maximum_path"}

\* what the total generator loss of a batch can be
GLoss == {"finite", "nan", "inf"}

\* the value float(loss) of a loss of one batch (lines 337, 456-458)
LossVals == {1}

\* torch.isnan (line 339)
isnan(g) == g = "nan"

Steps(mods) == [k \in 1 .. Len(mods) |-> Op("step", mods[k])]

\* lines 289-296
DiscUpdate ==
    <<Op("zero_grad", "all"), Op("backward", "d_loss")>> \o Steps(DiscModules)
    \o <<Op("mark_step", "xm")>>

GenUpdateNoZeroGrad(g) ==
    <<Op("backward", "g_loss")>>
    \o (IF isnan(g) THEN <<>> ELSE Steps(GenModules) \o <<Op("mark_step", "xm")>>)

\* lines 298-347
GenUpdate(g) ==
    <<Op("zero_grad", "all"), Op("backward", "g_loss")>>
    \o (IF isnan(g) THEN <<>> ELSE Steps(GenModules) \o <<Op("mark_step", "xm")>>)

\* lines 225-233: only the aligner forward is inside the try
TrainHandled(fail) == fail = "aligner"

TrainOutcome(fail, g) ==
    IF fail # "none" THEN (IF TrainHandled(fail) THEN "skipped" ELSE "fatal")
    ELSE IF isnan(g) THEN "fatal"
    ELSE "ok"

TrainOps(fail, g) ==
    IF fail # "none" THEN (IF TrainHandled(fail) THEN <<Op("mark_step", "xm")>> ELSE <<>>)
    ELSE DiscUpdate \o GenUpdate(g)

\* line 349 is reached only by a batch that neither continued nor raised
NextItersAlways(it, out) == it + 1

NextIters(it, out) == IF out = "ok" THEN it + 1 ELSE it

\* line 351: the interval log is due after the batch with index idx
LogDue(w, idx) == is_master(w) /\ (idx + 1) % LogInterval = 0

\* lines 351-367: the interval log of a completed batch with index idx
LogFx(w, idx) ==
    IF LogDue(w, idx)
    THEN Fx(w, "log", {"train step"}) \cup Fx(w, "scalar", {"train/*"})
         \cup Fx(w, "print", {"Time elapsed"})
    ELSE {}

InterimFxBeforeIncrement(w, it) ==
    IF (it - 1) % SaveInterval = 0 /\ is_master(w)
    THEN Fx(w, "save", {"current_model.pth"})
    ELSE {}

\* lines 369-380: the interim checkpoint, with the step counter it after the increment
InterimFx(w, it) ==
    IF it % SaveInterval = 0 /\ is_master(w)
    THEN Fx(w, "save", {"current_model.pth"})
    ELSE {}

\* optimizer.step(name): one update of the parameters of the named module and of
\* nothing else; none when the module is frozen
StepModule(s, m, frozen) ==
    IF m \in frozen THEN s
    ELSE [net |-> [s.net EXCEPT ![m] = @ + 1],
          optimizer |-> [s.optimizer EXCEPT ![m] = @ + 1]]

\* the weights and the optimizer state after the calls ops, in order
RECURSIVE ApplyOps(_, _, _)
ApplyOps(s, ops, frozen) ==
    IF ops = <<>> THEN s
    ELSE ApplyOps(IF Head(ops).op = "step" THEN StepModule(s, Head(ops).arg, frozen) ELSE s,
                  Tail(ops), frozen)

\* line 337 is reached by a batch that got past the aligner and maximum_path
Accumulates(fail) == fail = "none"

\* lines 355, 358: the mel loss the interval log reports, running_loss / log_interval
EmitLog(acc, n) ==
    [emitted |-> TRUE, mel |-> Frac(acc, LogInterval), sum |-> acc, n |-> n]

InterimSaveStaleIters(w, it, s, e) ==
    IF it % SaveInterval = 0 /\ is_master(w)
    THEN Ckpt("current_model.pth", s.net, s.optimizer, it - 1, Zero, e)
    ELSE NoSave

\* lines 370-380: the interim checkpoint
InterimSave(w, it, s, e) ==
    IF it % SaveInterval = 0 /\ is_master(w)
    THEN Ckpt("current_model.pth", s.net, s.optimizer, it, Zero, e)
    ELSE NoSave

\* lines 215-380: one iteration of the training loop
TrainBatch(w) ==
    /\ AtTrainBatch(w)
    /\ \E fail \in FailPoints :
       \E g \in (IF fail = "none" THEN GLoss ELSE {"n/a"}) :
       \E m \in LossVals :
          LET out == TrainOutcome(fail, g)
              it == NextIters(iters[w], out)
              fx == IF out = "ok" THEN LogFx(w, i[w]) \cup InterimFx(w, it) ELSE {}
              s == ApplyOps([net |-> net[w], optimizer |-> optimizer[w]],
                            TrainOps(fail, g), FreezeArg(cfg))
              acc == IF Accumulates(fail) THEN running_loss[w] + m ELSE running_loss[w]
              n == IF Accumulates(fail) THEN running_n[w] + 1 ELSE running_n[w]
              due == out = "ok" /\ LogDue(w, i[w])
          IN /\ pc' = [pc EXCEPT ![w] = IF out = "fatal" THEN "fatal" ELSE "train"]
             /\ i' = [i EXCEPT ![w] = IF out = "fatal" THEN @ ELSE @ + 1]
             /\ iters' = [iters EXCEPT ![w] = it]
             /\ done_batches' = [done_batches EXCEPT ![w] = IF out = "ok" THEN @ + 1 ELSE @]
             /\ net' = [net EXCEPT ![w] = s.net]
             /\ optimizer' = [optimizer EXCEPT ![w] = s.optimizer]
             /\ running_loss' = [running_loss EXCEPT ![w] = IF due THEN 0 ELSE acc]
             /\ running_n' = [running_n EXCEPT ![w] = IF due THEN 0 ELSE n]
             /\ ev' = [NoEvent EXCEPT !.w = w, !.kind = "train", !.fail = fail, !.g = g,
                                      !.outcome = out, !.ops = TrainOps(fail, g),
                                      !.fx = fx, !.iters0 = iters[w], !.i = i[w],
                                      !.log = IF due THEN EmitLog(acc, n) ELSE NoLog,
                                      !.save = IF out = "ok"
                                               THEN InterimSave(w, it, s, epoch[w])
                                               ELSE NoSave]
    /\ UNCHANGED <<cfg, epoch, loss_test, loss_align, loss_f, iters_test,
                   reduced, red, smp, training>>

\* line 388: every module in eval mode
EvalModes == {}

\* lines 382-391: the training loader is exhausted; validation starts.  running_loss
\* is not read again before line 205 zeroes it
EndTrain(w) ==
    /\ AtEndTrain(w)
    /\ LET fx == IF is_master(w) THEN Fx(w, "print", {"Evaluating..."}) ELSE {}
       IN ev' = [NoEvent EXCEPT !.w = w, !.kind = "endtrain", !.outcome = "ok",
                                !.fx = fx, !.iters0 = iters[w], !.i = i[w]]
    /\ pc' = [pc EXCEPT ![w] = "eval"]
    /\ i' = [i EXCEPT ![w] = 0]
    /\ loss_test' = [loss_test EXCEPT ![w] = Zero]
    /\ loss_align' = [loss_align EXCEPT ![w] = Zero]
    /\ loss_f' = [loss_f EXCEPT ![w] = Zero]
    /\ iters_test' = [iters_test EXCEPT ![w] = 0]
    /\ training' = [training EXCEPT ![w] = EvalModes]
    /\ running_loss' = [running_loss EXCEPT ![w] = 0]
    /\ running_n' = [running_n EXCEPT ![w] = 0]
    /\ UNCHANGED <<cfg, epoch, iters, done_batches, reduced, red, smp, net, optimizer>>

\* ------------------------------------------------------------- validation
\* where a validation batch can raise: before the sums are touched, as in training,
\* or in a float() of lines 457-458, which fetches a loss from the device after
\* loss_test was added to
ValFailPoints == FailPoints \cup {"float(loss_dur)"}

\* lines 393-463: the whole body is inside the try
ValHandled(fail) == TRUE

\* lines 456-460: the accumulations a batch performs before it raises at fail
ValAdds(fail) ==
    IF fail = "none" THEN {"loss_test", "loss_align", "loss_f", "iters_test"}
    ELSE IF fail = "float(loss_dur)" THEN {"loss_test"}
    ELSE {}

ValOpsWithUpdate(fail) ==
    IF fail = "none"
    THEN <<Op("zero_grad", "all"), Op("backward", "loss_mel"), Op("step", "decoder")>>
    ELSE IF ValHandled(fail) THEN <<Op("zero_grad", "all"), Op("mark_step", "xm")>>
    ELSE <<Op("zero_grad", "all")>>

\* lines 394-463: the optimizer and xm calls of a validation batch
ValOps(fail) ==
    IF fail = "none" THEN <<Op("zero_grad", "all")>>
    ELSE IF ValHandled(fail) THEN <<Op("zero_grad", "all"), Op("mark_step", "xm")>>
    ELSE <<Op("zero_grad", "all")>>

ValOutcome(fail) ==
    IF fail = "none" THEN "ok" ELSE IF ValHandled(fail) THEN "skipped" ELSE "fatal"

\* lines 392-463: one iteration of the validation loop, the batch raising at one of
\* fails
ValBatchAt(w, fails) ==
    /\ AtValBatch(w)
    /\ \E fail \in fails :
       \E m, d, f \in LossVals :
          LET out == ValOutcome(fail)
              adds == ValAdds(fail)
              s == ApplyOps([net |-> net[w], optimizer |-> optimizer[w]],
                            ValOps(fail), FreezeArg(cfg))
          IN /\ pc' = [pc EXCEPT ![w] = IF out = "fatal" THEN "fatal" ELSE "eval"]
             /\ i' = [i EXCEPT ![w] = IF out = "fatal" THEN @ ELSE @ + 1]
             /\ loss_test' = [loss_test EXCEPT
                                 ![w] = IF "loss_test" \in adds THEN FracAdd(@, m) ELSE @]
             /\ loss_align' = [loss_align EXCEPT
                                  ![w] = IF "loss_align" \in adds THEN FracAdd(@, d) ELSE @]
             /\ loss_f' = [loss_f EXCEPT
                              ![w] = IF "loss_f" \in adds THEN FracAdd(@, f) ELSE @]
             /\ iters_test' = [iters_test EXCEPT
                                  ![w] = IF "iters_test" \in adds THEN @ + 1 ELSE @]
             /\ ev' = [NoEvent EXCEPT !.w = w, !.kind = "val", !.fail = fail,
                                      !.outcome = out, !.ops = ValOps(fail),
                                      !.iters0 = iters[w], !.i = i[w],
                                      !.acc0 = <<loss_test[w], loss_align[w], loss_f[w],
                                                 iters_test[w]>>,
                                      !.s0 = [net |-> net[w], optimizer |-> optimizer[w]]]
             /\ net' = [net EXCEPT ![w] = s.net]
             /\ optimizer' = [optimizer EXCEPT ![w] = s.optimizer]
    /\ UNCHANGED <<cfg, epoch, iters, done_batches, reduced, red, smp, training,
                   running_loss, running_n>>

\* a validation batch that raises, if it does, before line 456
ValBatch(w) == ValBatchAt(w, FailPoints)

\* a validation batch that raises, if it does, anywhere in the try block
ValBatchAnywhere(w) == ValBatchAt(w, ValFailPoints)

CallsReduceMasterOnly(w) == is_master(w)

\* lines 465-468 are outside every conditional: each worker calls mesh_reduce
CallsReduce(w) == TRUE

\* the validation loader is exhausted: the worker arrives at the first mesh_reduce
EndVal(w) ==
    /\ AtEndVal(w)
    /\ pc' = [pc EXCEPT ![w] = IF CallsReduce(w) THEN "reduce" ELSE "report"]
    /\ ev' = [NoEvent EXCEPT !.w = w, !.kind = "endval", !.outcome = "ok",
                             !.iters0 = iters[w], !.i = i[w]]
    /\ UNCHANGED <<cfg, epoch, i, iters, done_batches, loss_test, loss_align, loss_f,
                   iters_test, reduced, red, smp, model_vars>>

\* the tags of lines 466-468, in program order
ReduceTags == <<"loss_test", "loss_align", "loss_f">>

\* lambda x: sum(x) / len(x) over the values of all workers
MeshMean(f) == FracDiv(SumOver(f, Workers), NumWorkers)

\* the next reduction worker w will call: it has done Len(reduced[w]) of them
NextTag(w) == ReduceTags[(Len(reduced[w]) % Len(ReduceTags)) + 1]

\* the variable reduced under tag j, on every worker, after reduction k
Reduced(k, j, f) == IF k = j THEN [w \in Workers |-> MeshMean(f)] ELSE f

\* what entered the loss_test reduction (kept for the report)
Entered(k) == IF k = 1 THEN [sums |-> loss_test, counts |-> iters_test] ELSE red

\* after the last reduction every worker is at line 470
AfterReduce(k) == IF k = Len(ReduceTags) THEN [w \in Workers |-> "report"] ELSE pc

\* every worker is in the mesh_reduce call with tag k
Rendezvous(k) == \A w \in Workers : pc[w] = "reduce" /\ NextTag(w) = ReduceTags[k]

\* xm.mesh_reduce(tag, data, fn): a rendezvous of all workers on one tag; every
\* worker gets fn of all the data and goes on to its next statement
MeshReduce(k) ==
    /\ Rendezvous(k)
    /\ loss_test' = Reduced(k, 1, loss_test)
    /\ loss_align' = Reduced(k, 2, loss_align)
    /\ loss_f' = Reduced(k, 3, loss_f)
    /\ red' = Entered(k)
    /\ reduced' = [w \in Workers |-> Append(reduced[w], ReduceTags[k])]
    /\ pc' = AfterReduce(k)
    /\ ev' = [NoEvent EXCEPT !.kind = "reduce", !.outcome = "ok", !.i = k]
    /\ UNCHANGED <<cfg, epoch, i, iters, done_batches, iters_test, smp, model_vars>>

\* loss_test / max(iters_test, 1) (lines 473, 474, 480, 487)
ValLoss(w) == FracDiv(loss_test[w], Max(iters_test[w], 1))

\* lines 470-491: what the master reports and saves after the reductions
ReportFx(w, e) ==
    IF is_master(w)
    THEN Fx(w, "print", {"Epochs:"}) \cup Fx(w, "log", {"Validation loss"})
         \cup Fx(w, "scalar", {"eval/*"})
         \cup (IF (e + 1) % SaveFreq = 0
               THEN Fx(w, "print", {"Saving.."}) \cup Fx(w, "save", {"epoch_%05d.pth"})
               ELSE {})
    ELSE {}

\* lines 479-491: the per-epoch checkpoint
EpochSave(w, e) ==
    IF is_master(w) /\ (e + 1) % SaveFreq = 0
    THEN Ckpt("epoch_%05d.pth", net[w], optimizer[w], iters[w], ValLoss(w), e)
    ELSE NoSave

\* lines 470-494: the end of an epoch, and the head of the next one.  The sums and
\* the count are not read again before lines 385-391 reassign them, so they are
\* forgotten here; ev keeps what the master reported and what it was reduced from
Report(w) ==
    /\ AtReport(w)
    /\ LET fx == ReportFx(w, epoch[w]) \cup LoopFx(w, epoch[w] + 1)
       IN ev' = [NoEvent EXCEPT !.w = w, !.kind = "report", !.outcome = "ok",
                                !.fx = fx, !.iters0 = iters[w], !.i = epoch[w],
                                !.val = IF is_master(w) THEN ValLoss(w) ELSE Zero,
                                !.red = IF is_master(w) THEN red ELSE NoRed,
                                !.save = EpochSave(w, epoch[w])]
    /\ red' = IF is_master(w) THEN NoRed ELSE red
    /\ epoch' = [epoch EXCEPT ![w] = @ + 1]
    /\ pc' = [pc EXCEPT ![w] = LoopPc(epoch[w] + 1)]
    /\ i' = [i EXCEPT ![w] = 0]
    /\ loss_test' = [loss_test EXCEPT ![w] = Zero]
    /\ loss_align' = [loss_align EXCEPT ![w] = Zero]
    /\ loss_f' = [loss_f EXCEPT ![w] = Zero]
    /\ iters_test' = [iters_test EXCEPT ![w] = 0]
    /\ training' = [training EXCEPT ![w] = EpochModes(epoch[w] + 1, @)]
    /\ UNCHANGED <<cfg, iters, done_batches, reduced, smp, net, optimizer,
                   running_loss, running_n>>

\* --------------------------------------------------- the segment sampler
\* the values of config max_len: one that caps the window, and the default (line 79)
MaxLens == {2, 200}

\* the mel_input_length tensors of a batch
BatchLens == [1 .. BatchSize -> 1 .. MaxMelLen]

SeqMin(s) == CHOOSE x \in {s[k] : k \in DOMAIN s} : \A k \in DOMAIN s : x <= s[k]

SeqMax(s) == CHOOSE x \in {s[k] : k \in DOMAIN s} : \A k \in DOMAIN s : x >= s[k]

\* line 256: min(int(mel_input_length.min().item() / 2 - 1), max_len // 2)
MelLenTrain(lens, max_len) == Min(PyIntDiv(SeqMin(lens), 2, -1), max_len \div 2)

\* line 418: int(mel_input_length.min().item() / 2 - 1)
MelLenVal(lens) == PyIntDiv(SeqMin(lens), 2, -1)

\* lines 260, 422: int(mel_input_length[bib].item() / 2)
MelLength(len) == PyIntDiv(len, 2, 0)

\* np.random.randint(low, high): an integer of [low, high); none (ValueError) when
\* low >= high
Randint(low, high) == IF low < high THEN low .. (high - 1) ELSE {}

StartRangeShared(lens, bib, mel_len) == Randint(0, MelLength(SeqMax(lens)) - mel_len)

\* lines 260-261, 422-423: the starts random_start can take for example bib
StartRange(lens, bib, mel_len) == Randint(0, MelLength(lens[bib]) - mel_len)

\* lines 262-265: the four slices training takes at random_start, as [from, to)
Windows(random_start, mel_len) ==
    [en |-> <<random_start, random_start + mel_len>>,
     p_en |-> <<random_start, random_start + mel_len>>,
     gt |-> <<random_start * 2, (random_start + mel_len) * 2>>,
     wav |-> <<(random_start * 2) * HopSize, ((random_start + mel_len) * 2) * HopSize>>]

\* the slices with the waveform indexed by mel frame, one hop per frame
WindowsValOneHop(random_start, mel_len) ==
    [en |-> <<random_start, random_start + mel_len>>,
     p_en |-> <<random_start, random_start + mel_len>>,
     gt |-> <<random_start * 2, (random_start + mel_len) * 2>>,
     wav |-> <<random_start * 300, (random_start + mel_len) * 300>>]

\* lines 424-427: the four slices validation takes at random_start
WindowsVal(random_start, mel_len) ==
    [en |-> <<random_start, random_start + mel_len>>,
     p_en |-> <<random_start, random_start + mel_len>>,
     gt |-> <<(random_start * 2), ((random_start + mel_len) * 2)>>,
     wav |-> <<(random_start * 2) * 300, ((random_start + mel_len) * 2) * 300>>]

\* every choice of one start per example, for the examples bib .. BatchSize
RECURSIVE StartSeqs(_, _, _)
StartSeqs(lens, mel_len, bib) ==
    IF bib > BatchSize THEN {<<>>}
    ELSE {<<r>> \o rest : r \in StartRange(lens, bib, mel_len),
                          rest \in StartSeqs(lens, mel_len, bib + 1)}

\* lines 259-266 (training) and 421-428 (validation): one start per example, or
\* the ValueError of the first example whose range is empty
Sample(kind, mel_len) ==
    IF \E b \in 1 .. BatchSize : StartRange(smp.lens, b, mel_len) = {}
    THEN smp' = [smp EXCEPT !.kind = kind, !.mel_len = mel_len, !.raised = TRUE]
    ELSE \E starts \in StartSeqs(smp.lens, mel_len, 1) :
            smp' = [smp EXCEPT !.kind = kind, !.mel_len = mel_len, !.starts = starts,
                               !.win = [b \in 1 .. BatchSize |->
                                           IF kind = "train"
                                           THEN Windows(starts[b], mel_len)
                                           ELSE WindowsVal(starts[b], mel_len)]]

\* lines 256-266, on the batch at hand
SampleTrain ==
    /\ smp.kind = "batch"
    /\ Sample("train", MelLenTrain(smp.lens, smp.max_len))
    /\ UNCHANGED <<cfg, pc, epoch, i, iters, done_batches, loss_test, loss_align, loss_f,
                   iters_test, reduced, red, ev, model_vars>>

\* lines 418-428, on the batch at hand
SampleVal ==
    /\ smp.kind = "batch"
    /\ Sample("val", MelLenVal(smp.lens))
    /\ UNCHANGED <<cfg, pc, epoch, i, iters, done_batches, loss_test, loss_align, loss_f,
                   iters_test, reduced, red, ev, model_vars>>

\* ------------------------------------------------------------ the program
WorkerStep(w) ==
    \/ Setup(w)
    \/ TrainBatch(w)
    \/ EndTrain(w)
    \/ ValBatch(w)
    \/ EndVal(w)
    \/ Report(w)

MeshStep == \E k \in 1 .. Len(ReduceTags) : MeshReduce(k)

Next ==
    \/ \E w \in Workers : WorkerStep(w)
    \/ MeshStep

Spec == Init /\ [][Next]_vars

\* the program with validation batches that can also raise inside lines 456-458
ValStep(w) ==
    \/ Setup(w)
    \/ TrainBatch(w)
    \/ EndTrain(w)
    \/ ValBatchAnywhere(w)
    \/ EndVal(w)
    \/ Report(w)

ValNext ==
    \/ \E w \in Workers : ValStep(w)
    \/ MeshStep

ValSpec == Init /\ [][ValNext]_vars

\* the sampler alone, on every batch of lengths within the bounds
SamplerInit ==
    /\ InitProgram
    /\ SetupOutcome(cfg) = "ok"
    /\ \E lens \in BatchLens : \E max_len \in MaxLens :
          smp = [NoSample EXCEPT !.kind = "batch", !.lens = lens, !.max_len = max_len]

SamplerNext == SampleTrain \/ SampleVal

SamplerSpec == SamplerInit /\ [][SamplerNext]_vars

\* ----------------------------------------------------------------- claims
IsPrefix(s, t) == Len(s) <= Len(t) /\ SubSeq(t, 1, Len(s)) = s

\* the positions of ops before / after its first mark_step
FirstMark(ops) ==
    IF \E k \in DOMAIN ops : ops[k].op = "mark_step"
    THEN CHOOSE k \in DOMAIN ops :
            /\ ops[k].op = "mark_step"
            /\ \A j \in 1 .. (k - 1) : ops[j].op # "mark_step"
    ELSE Len(ops) + 1

StepsAt(ops, ks) == {ops[k].arg : k \in {j \in DOMAIN ops \cap ks : ops[j].op = "step"}}

DiscPhaseSteps(ops) == StepsAt(ops, 1 .. (FirstMark(ops) - 1))

GenPhaseSteps(ops) == StepsAt(ops, (FirstMark(ops) + 1) .. Len(ops))

NoStepTwice(ops) ==
    \A j, k \in DOMAIN ops :
        (j # k /\ ops[j].op = "step" /\ ops[k].op = "step") => ops[j].arg # ops[k].arg

TheDiscModules == {"msd", "mpd"}

TheGenModules == {"text_aligner", "text_encoder", "style_encoder", "predictor", "decoder"}

FullOrder ==
    <<Op("zero_grad", "all"), Op("backward", "d_loss"), Op("step", "msd"),
      Op("step", "mpd"), Op("mark_step", "xm"),
      Op("zero_grad", "all"), Op("backward", "g_loss"), Op("step", "predictor"),
      Op("step", "style_encoder"), Op("step", "decoder"), Op("step", "text_encoder"),
      Op("step", "text_aligner"), Op("mark_step", "xm")>>

\* C1: a training batch that is not skipped performs zero_grad, discriminator
\* backward, the discriminator steps, mark_step, zero_grad, generator backward, the
\* generator steps, mark_step, in this order (a batch that raises stops somewhere
\* along it); every backward directly follows a zero_grad.
C1_UpdateOrder ==
    (ev.kind = "train" /\ ev.outcome # "skipped") =>
        /\ IsPrefix(ev.ops, FullOrder)
        /\ ev.outcome = "ok" => ev.ops = FullOrder
        /\ \A k \in DOMAIN ev.ops :
              ev.ops[k].op = "backward" => (k > 1 /\ ev.ops[k - 1].op = "zero_grad")
        /\ \A k \in DOMAIN ev.ops :
              ev.ops[k] = Op("backward", "g_loss") =>
                  \E j \in 1 .. (k - 1) : ev.ops[j].op = "mark_step"

C1_Witness ==
    ev.kind = "train" /\ ev.outcome = "ok" /\ Len(ev.ops) = Len(FullOrder)

\* C2: the discriminator phase of a training batch steps msd and mpd and nothing
\* else, the generator phase the five generator-side modules and nothing else; no
\* module is stepped twice in a batch, and nothing but a training batch steps.
C2_StepSets ==
    /\ ev.kind = "train" =>
          /\ DiscPhaseSteps(ev.ops) \subseteq TheDiscModules
          /\ GenPhaseSteps(ev.ops) \subseteq TheGenModules
          /\ NoStepTwice(ev.ops)
          /\ ev.fail = "none" => DiscPhaseSteps(ev.ops) = TheDiscModules
          /\ ev.outcome = "ok" => GenPhaseSteps(ev.ops) = TheGenModules
    /\ ev.kind # "train" => \A k \in DOMAIN ev.ops : ev.ops[k].op # "step"

C2_Witness ==
    /\ ev.kind = "train"
    /\ DiscPhaseSteps(ev.ops) = TheDiscModules
    /\ GenPhaseSteps(ev.ops) = TheGenModules

\* a worker that got through setup (its counters were loaded)
Loaded(w) == SetupOutcome(cfg) = "ok" /\ pc[w] # "start"

\* C3: a training batch whose aligner forward fails is skipped: its only call is
\* one mark_step, iters is unchanged and the loop is at the next batch; and iters
\* is always its loaded value plus the number of batches that completed.
C3_SkipKeepsIters ==
    /\ (ev.kind = "train" /\ ev.fail = "aligner") =>
          /\ ev.outcome = "skipped"
          /\ ev.ops = <<Op("mark_step", "xm")>>
          /\ ev.fx = {}
          /\ iters[ev.w] = ev.iters0
          /\ pc[ev.w] = "train" /\ i[ev.w] = ev.i + 1
    /\ \A w \in Workers : Loaded(w) => iters[w] = cfg.iters + done_batches[w]

C3_Witness ==
    /\ ev.kind = "train" /\ ev.fail = "aligner"
    /\ cfg.start_epoch = 0 /\ epoch[ev.w] = 1
    /\ done_batches[ev.w] >= 1

\* C4: a batch whose total generator loss is NaN or infinite raises before any
\* generator step: no generator module is stepped, iters is not incremented, and
\* nothing is logged or saved for it.
C4_NonFiniteAborts ==
    (ev.kind = "train" /\ ev.g \in {"nan", "inf"}) =>
        /\ ev.outcome = "fatal"
        /\ GenPhaseSteps(ev.ops) = {}
        /\ iters[ev.w] = ev.iters0
        /\ ev.fx = {}

\* C5: no side effect (file system, writer, print, log, scalar, save) is ever
\* performed by a worker that is not the master.
C5_MasterOnly == \A e \in ev.fx : e.w = Master

\* the average over the workers of sums[w] / counts[w]
AvgOfAvgs(r) ==
    FracDiv(SumOver([w \in Workers |-> FracDiv(r.sums[w], r.counts[w])], Workers),
            NumWorkers)

\* C6: the validation loss the master reports is the average over the workers of
\* their own averages sum / count (every worker having evaluated a batch).
C6_AvgOfAvgs ==
    (ev.kind = "report" /\ is_master(ev.w) /\ \A w \in Workers : ev.red.counts[w] > 0) =>
        ev.val = AvgOfAvgs(ev.red)

AllDone == \A w \in Workers : pc[w] = "done"

AnyAborted == \E w \in Workers : pc[w] \in {"fatal", "exit"}

\* the reductions a worker has done after n epochs
RECURSIVE TagsOfEpochs(_)
TagsOfEpochs(n) == IF n <= 0 THEN <<>> ELSE ReduceTags \o TagsOfEpochs(n - 1)

EpochsReduced(w) ==
    IF pc[w] = "report" THEN epoch[w] + 1 - cfg.start_epoch ELSE epoch[w] - cfg.start_epoch

ReducedInOrder ==
    \A w \in Workers :
        /\ IsPrefix(reduced[w], TagsOfEpochs(Epochs))
        /\ (Loaded(w) /\ pc[w] \in {"train", "eval", "report", "done"}) =>
              reduced[w] = TagsOfEpochs(EpochsReduced(w))

\* how far worker w is: every step of a worker, and every reduction, raises it
Span == 6 + NTrain + 2 * NVal

PcRank(p) ==
    CASE p = "start" -> 0
      [] p = "train" -> 1
      [] p = "done" -> 1
      [] p = "eval" -> 2 + NTrain
      [] p = "reduce" -> 3 + NTrain + NVal
      [] p = "report" -> 4 + NTrain + NVal
      [] OTHER -> Span - 1 - NVal

Rank(w) == epoch[w] * Span + PcRank(pc[w]) + i[w] + Len(reduced[w])

RECURSIVE Progress(_)
Progress(ws) ==
    IF ws = {} THEN 0
    ELSE LET w == CHOOSE x \in ws : TRUE IN Rank(w) + Progress(ws \ {w})

\* worker w has a statement of its own to execute (the batch loops draw the outcome
\* of a batch from non-empty sets, so the statement can always be executed)
Ready(w) ==
    \/ AtSetup(w) \/ AtTrainBatch(w) \/ AtEndTrain(w)
    \/ AtValBatch(w) \/ AtEndVal(w) \/ AtReport(w)

\* no worker can take a step of its own
NoWorkerStep == \A w \in Workers : ~Ready(w)

C9_WindowFits ==
    (smp.kind \in {"train", "val"} /\ ~smp.raised) =>
        \A b \in 1 .. BatchSize :
            /\ 0 <= smp.starts[b]
            /\ smp.starts[b] + smp.mel_len <= smp.lens[b] \div 2
            /\ 0 <= Windows(smp.starts[b], smp.mel_len).gt[1]
            /\ Windows(smp.starts[b], smp.mel_len).gt[2] <= smp.lens[b]

C9_Witness ==
    /\ smp.kind = "train" /\ ~smp.raised
    /\ smp.mel_len >= 1
    /\ smp.lens[1] < smp.lens[2]
    /\ smp.starts[2] + smp.mel_len > smp.lens[1] \div 2

Sampled == smp.kind \in {"train", "val"}

\* the starts at which the window fits in example b
FittingStarts(b) == {r \in 0 .. MaxMelLen : r + smp.mel_len <= smp.lens[b] \div 2}

\* C10: the starts that can be returned for an example are exactly the
\* starts at which the window fits, the last one included.
C10_AllFittingStarts ==
    Sampled => \A b \in 1 .. BatchSize : StartRange(smp.lens, b, smp.mel_len) = FittingStarts(b)

\* C11: without a pretrained checkpoint path no worker gets past setup: each one
\* that ran has aborted, no batch was processed, no optimizer step taken, no
\* reduction performed and no checkpoint loaded or written.
C11_NoPretrainedAborts ==
    ~cfg.pretrained =>
        /\ \A w \in Workers :
              /\ pc[w] \in {"start", "fatal", "exit"}
              /\ iters[w] = 0 /\ done_batches[w] = 0 /\ i[w] = 0
              /\ reduced[w] = <<>>
              /\ net[w] = Fresh /\ optimizer[w] = Fresh
        /\ ev.kind \in {"none", "setup"}
        /\ ev.kind = "setup" => ev.outcome \in {"fatal", "exit"}
        /\ \A k \in DOMAIN ev.ops : ev.ops[k].op = "build"
        /\ ev.save = NoSave
        /\ \A e \in ev.fx : e.kind # "save"

C11_Witness ==
    /\ ~cfg.pretrained /\ cfg.symbol
    /\ \A w \in Workers : pc[w] = "fatal"
    /\ ev.kind = "setup" /\ ev.outcome = "fatal"

\* the dataloader and model constructions among the calls of setup
Constructions == {Op("build", "train_dataloader"), Op("build", "val_dataloader"),
                  Op("build", "model")}

\* C12: a config without the symbol block makes the worker exit before any
\* dataloader or model is built, and in every setup the vocabulary is built
\* before each of them.
C12_VocabFirst ==
    ev.kind = "setup" =>
        /\ ~cfg.symbol =>
              /\ ev.outcome = "exit" /\ pc[ev.w] = "exit"
              /\ \A k \in DOMAIN ev.ops : ev.ops[k] \notin Constructions
        /\ \A k \in DOMAIN ev.ops :
              ev.ops[k] \in Constructions =>
                  \E j \in 1 .. (k - 1) : ev.ops[j] = Op("build", "vocab")

C12_Witness ==
    /\ ev.kind = "setup" /\ ~cfg.symbol /\ pc[ev.w] = "exit"
    /\ \E w \in Workers : pc[w] = "start"

\* C13: the weights of a module listed in freeze_modules stay what load_checkpoint
\* restored, through any number of training batches, although every batch calls
\* step for the module.
C13_FrozenUnchanged ==
    \A w \in Workers :
        Loaded(w) => \A m \in cfg.freeze : net[w][m] = CkptFile(cfg).net[m]

C13_Witness ==
    /\ ev.kind = "train" /\ ev.outcome = "ok"
    /\ cfg.freeze = {"decoder", "msd"}
    /\ done_batches[ev.w] >= 2
    /\ \E j, k \in DOMAIN ev.ops :
          ev.ops[j] = Op("step", "decoder") /\ ev.ops[k] = Op("step", "msd")
    /\ net[ev.w]["predictor"] = CkptFile(cfg).net["predictor"] + 2
    /\ net[ev.w]["decoder"] = CkptFile(cfg).net["decoder"]

\* the epoch in which the last event happened
EvEpoch == IF ev.kind = "report" THEN ev.i ELSE epoch[ev.w]

\* a checkpoint was written; it holds every module's weights, the optimizer state,
\* the step counter and the epoch of that moment, and load_checkpoint with this
\* load_only_params and empty ignore / freeze lists gives them back, the loop of
\* the run that loaded it starting at that epoch and step
RoundTrip(load_only_params) ==
    ev.save.path # "none" =>
        LET r == LoadCheckpoint(ev.save, load_only_params, {}, {})
        IN /\ DOMAIN ev.save.net = Modules
           /\ ev.save.net = net[ev.w]
           /\ ev.save.optimizer = optimizer[ev.w]
           /\ ev.save.iters = iters[ev.w]
           /\ ev.save.epoch = EvEpoch
           /\ r.net = net[ev.w]
           /\ r.optimizer = optimizer[ev.w]
           /\ Resume(r) = [epoch |-> EvEpoch, iters |-> iters[ev.w]]

\* C14: a checkpoint the loop writes holds the weights of every module, the
\* optimizer state, iters and epoch of the moment, and loading it with empty
\* ignore and freeze lists, whatever load_only_params, reproduces all of them
\* and resumes at that epoch and step.
C14_RoundTrip == \A load_only_params \in BOOLEAN : RoundTrip(load_only_params)

\* C14 with load_only_params false: the same round trip when the optimizer state
\* is asked for.
C14_RoundTripFullLoad == RoundTrip(FALSE)

C14_Witness ==
    /\ ev.save.path = "current_model.pth"
    /\ ev.save.iters = SaveInterval
    /\ optimizer[ev.w]["decoder"] = SaveInterval
    /\ cfg.freeze = {}

\* C15: the mel loss an interval log reports is the mean of the mel losses of the
\* batches accumulated since the accumulator was last zeroed, and the log zeroes
\* the accumulator.
C15_MeanSinceEmission ==
    ev.log.emitted =>
        /\ ev.log.n > 0
        /\ ev.log.mel = Frac(ev.log.sum, ev.log.n)
        /\ running_loss[ev.w] = 0

\* the last event wrote the interim checkpoint
InterimWritten ==
    [w |-> ev.w, kind |-> "save", what |-> "current_model.pth"] \in ev.fx

\* C16: the master writes current_model.pth exactly when a completed batch brings
\* its iters to a positive multiple of 1000; no other event, no skipped batch and
\* no other worker writes it, and the write is to that path only.
C16_InterimEveryInterval ==
    /\ (ev.kind = "train" /\ is_master(ev.w)) =>
          (InterimWritten <=>
              /\ ev.outcome = "ok"
              /\ iters[ev.w] = ev.iters0 + 1
              /\ iters[ev.w] > 0 /\ iters[ev.w] % SaveInterval = 0)
    /\ (ev.kind # "train" \/ ~is_master(ev.w) \/ ev.outcome # "ok") => ~InterimWritten
    /\ InterimWritten <=> ev.save.path = "current_model.pth"
    /\ InterimWritten => {e \in ev.fx : e.kind = "save"} = Fx(Master, "save", {"current_model.pth"})
    /\ (ev.kind = "train" /\ ev.outcome = "skipped") =>
          (ev.fx = {} /\ ev.save = NoSave /\ iters[ev.w] = ev.iters0)

C16_Witness ==
    /\ ev.kind = "train" /\ ev.outcome = "skipped" /\ is_master(ev.w)
    /\ iters[Master] = SaveInterval
    /\ ~InterimWritten

\* C17: a batch in which maximum_path raises is fatal to the worker, in the
\* training loop and in the validation loop alike; it is never skipped.
C17_MaxPathFatal ==
    (ev.kind \in {"train", "val"} /\ ev.fail = "maximum_path") =>
        (ev.outcome = "fatal" /\ pc[ev.w] = "fatal")

\* the three sums and the count of worker w
Acc(w) == <<loss_test[w], loss_align[w], loss_f[w], iters_test[w]>>

\* C18: a validation batch that fails, wherever, is skipped and the pass goes on:
\* it leaves the three sums and the count as they were, issues one mark_step, and
\* the loop is at the next batch.
C18_ValSkip ==
    (ev.kind = "val" /\ ev.fail # "none") =>
        /\ ev.outcome = "skipped"
        /\ pc[ev.w] = "eval" /\ i[ev.w] = ev.i + 1
        /\ Acc(ev.w) = ev.acc0
        /\ Cardinality({k \in DOMAIN ev.ops : ev.ops[k].op = "mark_step"}) = 1

\* C19: the four windows of every example cover one segment at fixed scales, in
\* training and in validation alike: en and p_en are [r, r + mel_len), gt is
\* [2r, 2(r + mel_len)) and wav is [600r, 600(r + mel_len)).
C19_WindowScales ==
    (Sampled /\ ~smp.raised) =>
        \A b \in 1 .. BatchSize :
            LET r == smp.starts[b]
                to == smp.starts[b] + smp.mel_len
                win == smp.win[b]
            IN  /\ win.en = <<r, to>>
                /\ win.p_en = <<r, to>>
                /\ win.gt = <<2 * r, 2 * to>>
                /\ win.wav = <<600 * r, 600 * to>>
                /\ win.wav[2] - win.wav[1] = 300 * (win.gt[2] - win.gt[1])
                /\ win.gt[2] - win.gt[1] = 2 * (win.en[2] - win.en[1])

C19_Witness ==
    /\ smp.kind = "val" /\ ~smp.raised
    /\ smp.mel_len = 2
    /\ smp.starts[2] = 1
    /\ smp.win[2].wav = <<600, 1800>>

\* C20: at every training batch of every epoch exactly text_aligner, text_encoder,
\* predictor, msd and mpd are in train mode, all other modules (decoder and
\* style_encoder among them) in eval mode; from the start of validation to the
\* head of the next epoch every module is in eval mode.
C20_ModuleModes ==
    \A w \in Workers :
        /\ pc[w] = "train" =>
              /\ training[w] = {"text_aligner", "text_encoder", "predictor", "msd", "mpd"}
              /\ {"decoder", "style_encoder", "pitch_extractor"} \cap training[w] = {}
        /\ pc[w] \in {"eval", "reduce", "report"} => training[w] = {}

\* in the epoch after a validation pass a worker has stepped the decoder, which
\* is in eval mode, and is at its next training batch
C20_Witness ==
    \E w \in Workers :
        /\ pc[w] = "train" /\ epoch[w] > cfg.start_epoch /\ i[w] < NTrain
        /\ ev.kind = "train" /\ ev.w = w
        /\ \E k \in DOMAIN ev.ops : ev.ops[k] = [op |-> "step", arg |-> "decoder"]
        /\ "decoder" \notin training[w]

\* the modules an update of a completed training batch changes
Stepped ==
    {GenModules[k] : k \in DOMAIN GenModules} \cup {DiscModules[k] : k \in DOMAIN DiscModules}

\* what n completed training batches make of the loaded value v of module m
Trained(v, m, n) == IF m \in Stepped \ cfg.freeze THEN v + n ELSE v

\* C21: a validation batch, completed or skipped, calls no backward and no step,
\* and of the optimizer only zero_grad; it leaves the weights of every module, the
\* optimizer state and iters as they were.  Through the whole pass, up to the head
\* of the next epoch, the weights, the optimizer state and iters are what the
\* completed training batches made of the loaded ones.
C21_ValidationFrame ==
    /\ ev.kind = "val" =>
          /\ \A k \in DOMAIN ev.ops : ev.ops[k].op \in {"zero_grad", "mark_step"}
          /\ \E k \in DOMAIN ev.ops : ev.ops[k].op = "zero_grad"
          /\ net[ev.w] = ev.s0.net
          /\ optimizer[ev.w] = ev.s0.optimizer
          /\ iters[ev.w] = ev.iters0
    /\ \A w \in Workers :
          pc[w] \in {"eval", "reduce", "report"} =>
              /\ iters[w] = cfg.iters + done_batches[w]
              /\ \A m \in Modules :
                    /\ net[w][m] = Trained(LoadPretrained(cfg).net[m], m, done_batches[w])
                    /\ optimizer[w][m] =
                          Trained(LoadPretrained(cfg).optimizer[m], m, done_batches[w])

\* a validation pass after an epoch that updated the weights: one batch was
\* skipped, and the batch after it completed
C21_Witness ==
    /\ ev.kind = "val" /\ ev.outcome = "ok"
    /\ iters_test[ev.w] < i[ev.w]
    /\ done_batches[ev.w] >= 1
    /\ net[ev.w]["decoder"] = LoadPretrained(cfg).net["decoder"] + done_batches[ev.w]

====
